---------------------------- MODULE Spec2Model ----------------------------
(***************************************************************************)
(* A model of the Commander command-line parser (src/src/lib.rs): the      *)
(* option registry built by add_option, the argument store filled by       *)
(* add_executable_arg and parse_args, and the typed getters.               *)
(*                                                                         *)
(* Strings are TLA+ strings; a character is a string of length one.        *)
(* parse_args is modelled one loop iteration per step, its position in     *)
(* the argument vector being the iterator `iter`.                          *)
(***************************************************************************)
EXTENDS Integers, Sequences, FiniteSets, TLC

VARIABLES
    options,    \* Commander.options : Vec<CmdLineOption>
    args,       \* Commander.args    : HashMap<String, CmdArgument>
    argv,       \* the argument vector handed to add_executable_arg / parse_args
    iter,       \* parse_args' iterator: index of the next element of argv
    phase,      \* "build" | "parse" | "done" | "panicked"
    stderr,     \* the lines written by eprintln!, in order
    ret,        \* what the last getter call returned
    added,      \* history: the specs handed to add_option, in call order
    origin      \* history: store key -> value_type of the option that stored it

vars == <<options, args, argv, iter, phase, stderr, ret, added, origin>>

---------------------------------------------------------------------------
(* Bounds of the model *)

\* add_option is called at most MaxOptions times
MaxOptions == 2

\* the argument vector holds at most MaxArgs tokens after the executable
MaxArgs == 3

---------------------------------------------------------------------------
(* Strings *)

\* the characters of the model's strings, in ascending byte order
Alphabet == "+-.0123456789_abcdefghijklmnopqrstuvwxyz"

Digits == "0123456789"

Char(s, i) == SubSeq(s, i, i)

\* the position of a character in a string of distinct characters (0: not in it)
IndexIn(c, s) ==
    IF \E i \in 1..Len(s) : Char(s, i) = c
    THEN CHOOSE i \in 1..Len(s) : Char(s, i) = c
    ELSE 0

\* &s[n..]
SliceFrom(s, n) == SubSeq(s, n + 1, Len(s))

\* str::starts_with
starts_with(s, p) == Len(s) >= Len(p) /\ SubSeq(s, 1, Len(p)) = p

\* str::cmp(a, b) = Less: lexicographic order of the bytes
RECURSIVE StrLess(_, _)
StrLess(a, b) ==
    IF Len(b) = 0 THEN FALSE
    ELSE IF Len(a) = 0 THEN TRUE
    ELSE IF Char(a, 1) = Char(b, 1) THEN StrLess(SliceFrom(a, 1), SliceFrom(b, 1))
    ELSE IndexIn(Char(a, 1), Alphabet) < IndexIn(Char(b, 1), Alphabet)

---------------------------------------------------------------------------
(* Types *)

\* enum CmdOptionValueType
CmdOptionValueType == {"String", "Number", "Float", "NoValue"}

\* struct CmdLineOption
CmdLineOption(shortform, longform, description, value_type) ==
    [shortform |-> shortform, longform |-> longform,
     description |-> description, value_type |-> value_type]

\* enum CmdArgumentValue: the variant is `tag`, the payload `val`
StringValue(s) == [tag |-> "String", val |-> [s |-> s]]
NumberValue(n) == [tag |-> "Number", val |-> [n |-> n]]
FloatValue(f) == [tag |-> "Float", val |-> [f |-> f]]
NoValue == [tag |-> "NoValue", val |-> [none |-> TRUE]]

\* struct CmdArgument
CmdArgument(option, value) == [option |-> option, value |-> value]

\* Option<T>
None == [some |-> FALSE]
Some(v) == [some |-> TRUE, v |-> v]

\* Result<T, E> of str::parse
Ok(v) == [ok |-> TRUE, v |-> v]
Err(e) == [ok |-> FALSE, e |-> e]

\* the key add_executable_arg stores the executable under
ExecKey == "__exec__"

---------------------------------------------------------------------------
(* str::parse::<i32>: an optional sign, then decimal digits, accumulated   *)
(* with checked arithmetic in the signed 32-bit range.                     *)

I32Max == 2147483647
I32Min == -I32Max - 1

IsDigit(c) == IndexIn(c, Digits) > 0
DigitVal(c) == IndexIn(c, Digits) - 1

\* the accumulation loop: `neg` subtracts the digits, as the library does
RECURSIVE AccumI32(_, _, _)
AccumI32(digits, acc, neg) ==
    IF Len(digits) = 0 THEN Ok(acc)
    ELSE IF ~IsDigit(Char(digits, 1)) THEN Err("InvalidDigit")
    ELSE LET d == DigitVal(Char(digits, 1))
             rest == SliceFrom(digits, 1)
         IN  IF neg
             THEN IF acc < -(I32Max \div 10) \/ acc * 10 < I32Min + d
                  THEN Err("NegOverflow")
                  ELSE AccumI32(rest, acc * 10 - d, neg)
             ELSE IF acc > I32Max \div 10 \/ acc * 10 > I32Max - d
                  THEN Err("PosOverflow")
                  ELSE AccumI32(rest, acc * 10 + d, neg)

ParseI32(s) ==
    IF Len(s) = 0 THEN Err("Empty")
    ELSE IF s \in {"+", "-"} THEN Err("InvalidDigit")
    ELSE IF Char(s, 1) = "+" THEN AccumI32(SliceFrom(s, 1), 0, FALSE)
    ELSE IF Char(s, 1) = "-" THEN AccumI32(SliceFrom(s, 1), 0, TRUE)
    ELSE AccumI32(s, 0, FALSE)

---------------------------------------------------------------------------
(* str::parse::<f32>: the decimal literal is read exactly and rounded to   *)
(* the nearest f32, ties to even.  A finite f32 is man * 2^exp with        *)
(* man < 2^F32MantBits; the decimal digits are turned into binary digits   *)
(* by long division and long multiplication by two, so no intermediate     *)
(* value is wider than F32MantBits bits.                                   *)

\* bits of an f32 significand
F32MantBits == 24
\* the largest binary exponent of a finite f32
F32MaxExp == 127
\* the smallest power of two an f32 holds is 2^(-F32MinQuantum)
F32MinQuantum == 149

RECURSIVE Pow2(_)
Pow2(k) == IF k = 0 THEN 1 ELSE 2 * Pow2(k - 1)

RECURSIVE DigitSeq(_)
DigitSeq(s) ==
    IF Len(s) = 0 THEN <<>>
    ELSE <<DigitVal(Char(s, 1))>> \o DigitSeq(SliceFrom(s, 1))
AllDigits(s) == \A i \in 1..Len(s) : IsDigit(Char(s, i))
IsZeroDigits(ds) == \A i \in 1..Len(ds) : ds[i] = 0

\* the integer ds, halved (long division by two)
RECURSIVE HalfDigits(_)
HalfDigits(ds) ==
    IF Len(ds) = 0 THEN <<>>
    ELSE LET n == Len(ds)
             borrow == IF n > 1 THEN (ds[n - 1] % 2) * 10 ELSE 0
         IN  Append(HalfDigits(SubSeq(ds, 1, n - 1)), (borrow + ds[n]) \div 2)

\* the fraction 0.ds, doubled, less its integer part (long multiplication by two)
RECURSIVE DoubleDigits(_)
DoubleDigits(ds) ==
    IF Len(ds) = 0 THEN <<>>
    ELSE LET carry == IF Len(ds) > 1 /\ ds[2] >= 5 THEN 1 ELSE 0
         IN  <<(2 * ds[1] + carry) % 10>> \o DoubleDigits(Tail(ds))

\* the binary digits of the integer ds, most significant first
RECURSIVE IntBits(_)
IntBits(ds) ==
    IF IsZeroDigits(ds) THEN <<>>
    ELSE Append(IntBits(HalfDigits(ds)), ds[Len(ds)] % 2)

\* the first n binary digits of the fraction 0.ds
RECURSIVE FracBits(_, _)
FracBits(ds, n) ==
    IF n = 0 THEN <<>>
    ELSE <<IF Len(ds) > 0 /\ ds[1] >= 5 THEN 1 ELSE 0>>
            \o FracBits(DoubleDigits(ds), n - 1)

\* what is left of the fraction 0.ds below its first n binary digits
RECURSIVE FracRest(_, _)
FracRest(ds, n) == IF n = 0 THEN ds ELSE FracRest(DoubleDigits(ds), n - 1)

\* the number of zero binary digits the fraction 0.ds starts with, up to limit
RECURSIVE LeadingZeroBits(_, _, _)
LeadingZeroBits(ds, k, limit) ==
    IF k >= limit \/ (Len(ds) > 0 /\ ds[1] >= 5) THEN k
    ELSE LeadingZeroBits(DoubleDigits(ds), k + 1, limit)

RECURSIVE BitsVal(_)
BitsVal(bits) ==
    IF Len(bits) = 0 THEN 0
    ELSE 2 * BitsVal(SubSeq(bits, 1, Len(bits) - 1)) + bits[Len(bits)]

F32Finite(neg, man, exp) == [kind |-> "finite", neg |-> neg, man |-> man, exp |-> exp]
F32Inf(neg) == [kind |-> "inf", neg |-> neg, man |-> 0, exp |-> 0]
F32NaN == [kind |-> "nan", neg |-> FALSE, man |-> 0, exp |-> 0]

\* the f32 nearest to (-1)^neg * (intDs . fracDs), ties to even
RoundF32(neg, intDs, fracDs) ==
    IF IsZeroDigits(intDs) /\ IsZeroDigits(fracDs) THEN F32Finite(neg, 0, 0)
    ELSE
    LET I == IntBits(intDs)
        \* the value lies in [2^E, 2^(E+1))
        E == IF Len(I) > 0 THEN Len(I) - 1
             ELSE -(LeadingZeroBits(fracDs, 0, F32MinQuantum + 2) + 1)
        \* the power of two of the significand's last place
        q == IF E - (F32MantBits - 1) < -F32MinQuantum THEN -F32MinQuantum
             ELSE E - (F32MantBits - 1)
        nfrac == IF q <= 0 THEN 1 - q ELSE 0
        bits == I \o FracBits(fracDs, nfrac)
        nman == Len(I) - q
        m == BitsVal(SubSeq(bits, 1, nman))
        guard == bits[nman + 1]
        sticky == (\E j \in (nman + 2)..Len(bits) : bits[j] = 1)
                  \/ ~IsZeroDigits(FracRest(fracDs, nfrac))
        up == guard = 1 /\ (sticky \/ m % 2 = 1)
        m1 == IF up THEN m + 1 ELSE m
        carry == m1 = Pow2(F32MantBits)
        man == IF carry THEN Pow2(F32MantBits - 1) ELSE m1
        exp == IF carry THEN q + 1 ELSE q
    IN  IF E > F32MaxExp THEN F32Inf(neg)
        ELSE IF exp + (F32MantBits - 1) > F32MaxExp THEN F32Inf(neg)
        ELSE IF man = 0 THEN F32Finite(neg, 0, 0)
        ELSE F32Finite(neg, man, exp)

RECURSIVE Zeros(_)
Zeros(n) == IF n <= 0 THEN <<>> ELSE <<0>> \o Zeros(n - 1)

\* intDs . fracDs times 10^e, as the pair of its integer and fraction digits
ShiftPoint(intDs, fracDs, e) ==
    IF e >= 0
    THEN LET f == fracDs \o Zeros(IF e > Len(fracDs) THEN e - Len(fracDs) ELSE 0)
         IN  <<intDs \o SubSeq(f, 1, e), SubSeq(f, e + 1, Len(f))>>
    ELSE LET n == -e
             i == Zeros(IF n > Len(intDs) THEN n - Len(intDs) ELSE 0) \o intDs
         IN  <<SubSeq(i, 1, Len(i) - n), SubSeq(i, Len(i) - n + 1, Len(i)) \o fracDs>>

\* the decimal exponent after 'e': an optional sign and at least one digit;
\* the library saturates it, here at a magnitude beyond every finite f32
ParseExponent(s, clamp) ==
    LET signed == Len(s) > 0 /\ Char(s, 1) \in {"+", "-"}
        ds == IF signed THEN SliceFrom(s, 1) ELSE s
        shortMag == ParseI32(SubSeq(ds, 1, IF Len(ds) > 9 THEN 9 ELSE Len(ds)))
        mag == IF Len(ds) > 9 \/ shortMag.v > clamp THEN clamp ELSE shortMag.v
    IN  IF Len(ds) = 0 \/ ~AllDigits(ds) THEN Err("Invalid")
        ELSE Ok(IF signed /\ Char(s, 1) = "-" THEN -mag ELSE mag)

\* digits [ '.' digits ] [ 'e' exponent ], with a digit before the exponent
ParseDecimal(neg, s) ==
    LET dot == IndexIn(".", s)
        ePos == IndexIn("e", s)
        mant == IF ePos > 0 THEN SubSeq(s, 1, ePos - 1) ELSE s
        intS == IF dot > 0 /\ dot <= Len(mant) THEN SubSeq(mant, 1, dot - 1) ELSE mant
        fracS == IF dot > 0 /\ dot <= Len(mant) THEN SliceFrom(mant, dot) ELSE ""
        e == IF ePos > 0
             THEN ParseExponent(SliceFrom(s, ePos), 400 + Len(s))
             ELSE Ok(0)
    IN  IF ~AllDigits(intS) \/ ~AllDigits(fracS) \/ Len(intS) + Len(fracS) = 0 \/ ~e.ok
        THEN Err("Invalid")
        ELSE LET p == ShiftPoint(DigitSeq(intS), DigitSeq(fracS), e.v)
             IN  Ok(RoundF32(neg, p[1], p[2]))

ParseF32(s) ==
    LET neg == Len(s) > 0 /\ Char(s, 1) = "-"
        body == IF Len(s) > 0 /\ Char(s, 1) \in {"+", "-"} THEN SliceFrom(s, 1) ELSE s
    IN  IF Len(body) = 0 THEN Err("Invalid")
        ELSE IF body \in {"inf", "infinity"} THEN Ok(F32Inf(neg))
        ELSE IF body = "nan" THEN Ok(F32NaN)
        ELSE ParseDecimal(neg, body)

---------------------------------------------------------------------------
(* Inputs of the model *)

\* the specs add_option is called with.  Three share the short form "c": two
\* of them also share the long form, the third has a long form of its own.
\* The fourth shares the long form "count" and has the executable's key as
\* its short form.
OptionPool ==
    { CmdLineOption("c", "count", "Amount of times to do something", "Number"),
      CmdLineOption("c", "text", "Text to print", "String"),
      CmdLineOption("c", "count", "Amount to count up to", "Float"),
      CmdLineOption(ExecKey, "count", "Count silently", "NoValue") }

\* element 0 of the argument vector
ExecPath == "prog"

\* the tokens that may follow it
Tokens == {"-c", "--count", "-__exec__", "10", "0.10", "2147483648"}

RECURSIVE SeqsUpTo(_, _)
SeqsUpTo(S, n) ==
    IF n = 0 THEN {<<>>}
    ELSE LET shorter == SeqsUpTo(S, n - 1)
         IN  shorter \cup {Append(q, x) : q \in {r \in shorter : Len(r) = n - 1}, x \in S}

\* the argument vectors: the executable and at most MaxArgs tokens
ArgVectors == {<<ExecPath>> \o t : t \in SeqsUpTo(Tokens, MaxArgs)}

\* the three typed getters
Getters == {"number", "float", "string"}

\* the names a getter is queried with
QueryNames == {"c", "count", "text", ExecKey}

---------------------------------------------------------------------------
(* The option registry *)

\* a registry that pushes the new spec and does not sort
push_unsorted(v) == v

\* Vec::sort_by(|a, b| a.shortform.cmp(&b.shortform)): a stable sort;
\* Insert puts x after every element that does not compare greater
RECURSIVE InsertByShortform(_, _)
InsertByShortform(sorted, x) ==
    IF Len(sorted) = 0 THEN <<x>>
    ELSE IF StrLess(x.shortform, sorted[1].shortform) THEN <<x>> \o sorted
    ELSE <<sorted[1]>> \o InsertByShortform(Tail(sorted), x)

RECURSIVE sort_by_shortform(_)
sort_by_shortform(v) ==
    IF Len(v) = 0 THEN <<>>
    ELSE InsertByShortform(sort_by_shortform(SubSeq(v, 1, Len(v) - 1)), v[Len(v)])

\* Commander::get_supported_option: the first option, in registry order,
\* whose short form (long form when is_longform) is `option`
get_supported_option(option, is_longform) ==
    LET matches(o) == (~is_longform /\ o.shortform = option)
                      \/ (is_longform /\ o.longform = option)
        found == {i \in 1..Len(options) : matches(options[i])}
    IN  IF found = {} THEN None
        ELSE Some(options[CHOOSE i \in found : \A j \in found : i <= j])

\* Commander::option_count
option_count == Len(options)

---------------------------------------------------------------------------
(* The argument store *)

\* an insert that keeps the entry already stored under `key`
insert_if_absent(map, key, value) ==
    [k \in DOMAIN map \cup {key} |-> IF k \in DOMAIN map THEN map[k] ELSE value]

\* HashMap::insert: the entry under `key` is added or replaced
insert(map, key, value) ==
    [k \in DOMAIN map \cup {key} |-> IF k = key THEN value ELSE map[k]]

\* HashMap::get
get(map, key) == IF key \in DOMAIN map THEN Some(map[key]) ELSE None

\* Commander::arg_count
arg_count == Cardinality(DOMAIN args)

\* a get_float_option that returns the payload of whatever variant is stored
FloatOfAnyVariant(value) == Some(value.val)

\* the match on arg.value of each getter
NumberOf(value) == IF value.tag = "Number" THEN Some(value.val.n) ELSE None
FloatOf(value) == IF value.tag = "Float" THEN Some(value.val.f) ELSE None
StringOf(value) == IF value.tag = "String" THEN Some(value.val.s) ELSE None

\* a lookup that reads the store under the queried name, registry unseen
LookupArgumentByName(option, is_longform) == get(args, option)

\* the lookup the three getters share: the option is resolved in the
\* registry, then the store is read under the option's short form
LookupArgument(option, is_longform) ==
    LET o == get_supported_option(option, is_longform)
    IN  IF o.some THEN get(args, o.v.shortform) ELSE None

\* Commander::get_number_option
get_number_option(option, is_longform) ==
    LET arg == LookupArgument(option, is_longform)
    IN  IF arg.some THEN NumberOf(arg.v.value) ELSE None

\* Commander::get_float_option
get_float_option(option, is_longform) ==
    LET arg == LookupArgument(option, is_longform)
    IN  IF arg.some THEN FloatOf(arg.v.value) ELSE None

\* Commander::get_string_option
get_string_option(option, is_longform) ==
    LET arg == LookupArgument(option, is_longform)
    IN  IF arg.some THEN StringOf(arg.v.value) ELSE None

\* the getter named `getter`, called with (option, is_longform)
call_getter(getter, option, is_longform) ==
    CASE getter = "number" -> get_number_option(option, is_longform)
      [] getter = "float" -> get_float_option(option, is_longform)
      [] getter = "string" -> get_string_option(option, is_longform)

---------------------------------------------------------------------------
(* parse_args, one token (and its value) at a time *)

\* arg.starts_with("-") / arg.starts_with("--")
IsShortform(arg) == starts_with(arg, "-")
IsLongform(arg) == starts_with(arg, "--")

\* the text matched against the registry: the token less its prefix
FlagText(arg) ==
    IF IsLongform(arg) THEN SliceFrom(arg, 2)
    ELSE IF IsShortform(arg) THEN SliceFrom(arg, 1)
    ELSE arg

\* the element iter.next() would return at position i
NextToken(i) == IF i <= Len(argv) THEN Some(argv[i]) ELSE None

\* a parser that takes no token that looks like a flag as a value
ConsumesValueUnlessFlag(option, next) ==
    option.value_type # "NoValue" /\ next.some /\ ~starts_with(next.v, "-")

\* whether the flag resolved to `option` takes the next token as its value
ConsumesValue(option, next) == option.value_type # "NoValue" /\ next.some

\* a coercion that falls back to zero where unwrap() panics
CoerceOrDefault(value_type, v) ==
    CASE value_type = "String" -> Ok(StringValue(v))
      [] value_type = "Number" ->
            LET r == ParseI32(v) IN Ok(NumberValue(IF r.ok THEN r.v ELSE 0))
      [] value_type = "Float" ->
            LET r == ParseF32(v)
            IN  Ok(FloatValue(IF r.ok THEN r.v ELSE F32Finite(FALSE, 0, 0)))

\* the match on option.value_type: the value token coerced to the declared
\* type; Err is the panic of unwrap()
Coerce(value_type, v) ==
    CASE value_type = "String" -> Ok(StringValue(v))
      [] value_type = "Number" ->
            LET r == ParseI32(v) IN IF r.ok THEN Ok(NumberValue(r.v)) ELSE r
      [] value_type = "Float" ->
            LET r == ParseF32(v) IN IF r.ok THEN Ok(FloatValue(r.v)) ELSE r

\* a parser that fails when a flag that expects a value is the last token
ArgumentValueOrFail(option, next) ==
    IF option.value_type = "NoValue" THEN Ok(NoValue)
    ELSE IF next.some THEN Coerce(option.value_type, next.v)
    ELSE Err("MissingValue")

\* current_arg.value: NoValue unless a value token is consumed
ArgumentValue(option, next) ==
    IF ConsumesValue(option, next) THEN Coerce(option.value_type, next.v)
    ELSE Ok(NoValue)

\* a parser that stores the argument under the form the user typed
InsertKeyAsTyped(option, value) == value

\* the key the argument resolved to `option` by the flag text `value` is stored under
InsertKey(option, value) == option.shortform

\* the lines of eprintln!
BadOption(longform, value) ==
    "[BAD] O(" \o (IF longform THEN "L" ELSE "S") \o "): " \o value
BadValue(value) == "[BAD?] V: " \o value

---------------------------------------------------------------------------
(* Operations *)

Init ==
    /\ options = <<>>
    /\ args = <<>>
    /\ argv = <<>>
    /\ iter = 0
    /\ phase = "build"
    /\ stderr = <<>>
    /\ ret = None
    /\ added = <<>>
    /\ origin = <<>>

\* Commander::add_option
add_option(shortform, longform, description, value_type) ==
    /\ phase = "build"
    /\ Len(added) < MaxOptions
    /\ LET option == CmdLineOption(shortform, longform, description, value_type)
       IN  /\ options' = sort_by_shortform(Append(options, option))
           /\ added' = Append(added, option)
    /\ UNCHANGED <<args, argv, iter, phase, stderr, ret, origin>>

\* Commander::add_executable_arg, as init and the tests call it: right
\* before parse_args, with the same vector; `iter` is args.iter().skip(1)
add_executable_arg(a) ==
    /\ phase = "build"
    /\ args' = insert(args, ExecKey, CmdArgument(ExecKey, StringValue(a[1])))
    /\ origin' = insert(origin, ExecKey, "executable")
    /\ argv' = a
    /\ iter' = 2
    /\ phase' = "parse"
    /\ UNCHANGED <<options, stderr, ret, added>>

\* one iteration of parse_args' while loop
parse_args ==
    /\ phase = "parse"
    /\ NextToken(iter).some
    /\ LET arg == argv[iter]
           shortform == IsShortform(arg)
           longform == IsLongform(arg)
           value == FlagText(arg)
       IN  IF longform \/ shortform
           THEN LET o == get_supported_option(value, longform)
                IN  IF o.some
                    THEN LET next == NextToken(iter + 1)
                             v == ArgumentValue(o.v, next)
                             key == InsertKey(o.v, value)
                         IN  /\ iter' = IF ConsumesValue(o.v, next) THEN iter + 2 ELSE iter + 1
                             /\ IF v.ok
                                THEN /\ args' = insert(args, key, CmdArgument(o.v.shortform, v.v))
                                     /\ origin' = insert(origin, key, o.v.value_type)
                                     /\ phase' = phase
                                ELSE /\ phase' = "panicked"
                                     /\ UNCHANGED <<args, origin>>
                             /\ stderr' = stderr
                    ELSE /\ stderr' = Append(stderr, BadOption(longform, value))
                         /\ iter' = iter + 1
                         /\ UNCHANGED <<args, origin, phase>>
           ELSE /\ stderr' = Append(stderr, BadValue(value))
                /\ iter' = iter + 1
                /\ UNCHANGED <<args, origin, phase>>
    /\ UNCHANGED <<options, argv, ret, added>>

\* parse_args returns: iter.next() is None
parse_args_return ==
    /\ phase = "parse"
    /\ ~NextToken(iter).some
    /\ phase' = "done"
    /\ UNCHANGED <<options, args, argv, iter, stderr, ret, added, origin>>

\* a call of one of the getters after parsing
get_option(getter, option, is_longform) ==
    /\ phase = "done"
    /\ ret' = call_getter(getter, option, is_longform)
    /\ UNCHANGED <<options, args, argv, iter, phase, stderr, added, origin>>

Next ==
    \/ \E o \in OptionPool :
          add_option(o.shortform, o.longform, o.description, o.value_type)
    \/ phase = "build" /\ \E a \in ArgVectors : add_executable_arg(a)
    \/ parse_args
    \/ parse_args_return
    \/ \E getter \in Getters, option \in QueryNames, is_longform \in BOOLEAN :
          get_option(getter, option, is_longform)

Spec == Init /\ [][Next]_vars

---------------------------------------------------------------------------
(* Vocabulary of the properties *)

\* the index of the first option, in registry order, with this short (long) form
FirstWithShortform(text) ==
    CHOOSE i \in 1..Len(options) :
        /\ options[i].shortform = text
        /\ \A j \in 1..(i - 1) : options[j].shortform # text
FirstWithLongform(text) ==
    CHOOSE i \in 1..Len(options) :
        /\ options[i].longform = text
        /\ \A j \in 1..(i - 1) : options[j].longform # text

\* some registered option has `text` as its long form (longform) or short form
RegisteredAs(text, longform) ==
    \E i \in 1..Len(options) :
        IF longform THEN options[i].longform = text ELSE options[i].shortform = text

\* the getter of a value type, and the variant a getter returns
GetterOf(value_type) ==
    CASE value_type = "String" -> "string"
      [] value_type = "Number" -> "number"
      [] value_type = "Float" -> "float"
VariantOf(getter) ==
    CASE getter = "string" -> "String"
      [] getter = "number" -> "Number"
      [] getter = "float" -> "Float"

\* v is a well-formed value of the type, and the value it denotes
WellFormed(value_type, v) ==
    CASE value_type = "String" -> TRUE
      [] value_type = "Number" -> ParseI32(v).ok
      [] value_type = "Float" -> ParseF32(v).ok
Denoted(value_type, v) ==
    CASE value_type = "String" -> v
      [] value_type = "Number" -> ParseI32(v).v
      [] value_type = "Float" -> ParseF32(v).v

\* the payload of a stored value, as the getter of its variant returns it
Payload(value) ==
    CASE value.tag = "String" -> value.val.s
      [] value.tag = "Number" -> value.val.n
      [] value.tag = "Float" -> value.val.f

\* how often x occurs in a sequence
Count(seq, x) == Cardinality({i \in 1..Len(seq) : seq[i] = x})

\* parse_args is at a token: the head of its loop
AtToken == phase = "parse" /\ iter <= Len(argv)
HeadIsFlag == IsShortform(argv[iter])
\* the option the token at the head resolves to
HeadOption == get_supported_option(FlagText(argv[iter]), IsLongform(argv[iter]))
AtResolvedFlag == AtToken /\ HeadIsFlag /\ HeadOption.some

---------------------------------------------------------------------------
(* C1 *)

\* C1, as stated: for every registered String, Number or Float option and
\* every vector [exec, flag, v], flag being "-" and the option's short form
\* or "--" and its long form, v well-formed for the option's type, parsing
\* ends and the getter of that type returns v, asked by the short form and
\* asked by the long form.
C1_EveryOptionRoundTrips ==
    (phase \in {"done", "panicked"} /\ Len(argv) = 3) =>
        \A i \in 1..Len(options) :
            LET o == options[i]
                g == GetterOf(o.value_type)
            IN  ( /\ o.value_type # "NoValue"
                  /\ argv[2] \in {"-" \o o.shortform, "--" \o o.longform}
                  /\ WellFormed(o.value_type, argv[3]) )
                => /\ phase = "done"
                   /\ call_getter(g, o.shortform, FALSE) = Some(Denoted(o.value_type, argv[3]))
                   /\ call_getter(g, o.longform, TRUE) = Some(Denoted(o.value_type, argv[3]))

\* C1, amended: the same, for the option the lookups find.  If the flag is
\* "-" and the short form of an option that is the first in the registry
\* with that short form (a short form that does not itself begin with "-"),
\* or "--" and the long form of an option that is the first in the registry
\* with that long form, then parsing ends, the entry is stored under the
\* option's short form and holds v, the getter asked by the short form
\* returns v, and so does the getter asked by the long form when the option
\* is the first with that long form.
C1_FirstMatchRoundTrips ==
    (phase \in {"done", "panicked"} /\ Len(argv) = 3) =>
        \A i \in 1..Len(options) :
            LET o == options[i]
                g == GetterOf(o.value_type)
                byShort == /\ argv[2] = "-" \o o.shortform
                           /\ ~starts_with(o.shortform, "-")
                           /\ FirstWithShortform(o.shortform) = i
                byLong == /\ argv[2] = "--" \o o.longform
                          /\ FirstWithLongform(o.longform) = i
            IN  ( /\ o.value_type # "NoValue"
                  /\ byShort \/ byLong
                  /\ WellFormed(o.value_type, argv[3]) )
                => /\ phase = "done"
                   /\ o.shortform \in DOMAIN args
                   /\ args[o.shortform].option = o.shortform
                   /\ args[o.shortform].value.tag = o.value_type
                   /\ Payload(args[o.shortform].value) = Denoted(o.value_type, argv[3])
                   /\ call_getter(g, o.shortform, FALSE) = Some(Denoted(o.value_type, argv[3]))
                   /\ FirstWithLongform(o.longform) = i
                        => call_getter(g, o.longform, TRUE) = Some(Denoted(o.value_type, argv[3]))

\* a Float option typed by its long form: "0.10" is read back as the f32
\* nearest to one tenth, by the short form and by the long form
C1_Witness ==
    /\ phase = "done"
    /\ argv = <<ExecPath, "--count", "0.10">>
    /\ Len(options) = 1
    /\ options[1].value_type = "Float"
    /\ DOMAIN args = {ExecKey, "c"}
    /\ get_float_option("c", FALSE) = Some(F32Finite(FALSE, 13421773, -27))
    /\ get_float_option("count", TRUE) = Some(F32Finite(FALSE, 13421773, -27))

---------------------------------------------------------------------------
(* C2 *)

\* C2: after any sequence of add_option calls the registry holds exactly the
\* specs that were added, as often as they were added, so option_count is
\* the number of calls; and it is in ascending order of short form.
C2_RegistryIsSortedMultiset ==
    /\ option_count = Len(added)
    /\ \A i \in 1..Len(options) : options[i] \in OptionPool
    /\ \A o \in OptionPool : Count(options, o) = Count(added, o)
    /\ \A i \in 1..(Len(options) - 1) :
          ~StrLess(options[i + 1].shortform, options[i].shortform)

\* two specs added in descending order of short form are held in ascending order
C2_Witness ==
    /\ Len(added) = 2
    /\ added[1].shortform = "c"
    /\ added[2].shortform = ExecKey
    /\ options = <<added[2], added[1]>>
    /\ option_count = 2

---------------------------------------------------------------------------
(* C3 *)

\* C3, as stated: once add_executable_arg has run, and whatever parse_args
\* does after it, the store has the key "__exec__" and its value is the
\* String holding element 0 of the argument vector.
C3_SentinelHoldsExecutable ==
    phase # "build" =>
        /\ ExecKey \in DOMAIN args
        /\ args[ExecKey].value = StringValue(argv[1])

---------------------------------------------------------------------------
(* C4 *)

\* C4, as stated: every stored argument other than the "__exec__" entry has
\* the variant of the value_type of the option it was resolved from.
C4_VariantIsDeclaredType ==
    \A k \in DOMAIN args \ {ExecKey} : args[k].value.tag = origin[k]

---------------------------------------------------------------------------
(* C5 *)

\* C5: when a flag that resolves to a String, Number or Float option is the
\* last token, parsing does not fail; the entry under the option's short
\* form becomes NoValue, whatever was stored there before, nothing else in
\* the store changes, and every getter call that resolves to that short
\* form returns absent.
C5_MissingValueStoresNoValue ==
    [][ ( /\ AtResolvedFlag
          /\ iter = Len(argv)
          /\ HeadOption.v.value_type # "NoValue" )
        => \A key \in {HeadOption.v.shortform} :
               /\ phase' = "parse"
               /\ stderr' = stderr
               /\ DOMAIN args' = DOMAIN args \cup {key}
               /\ args'[key] = CmdArgument(key, NoValue)
               /\ \A k \in DOMAIN args \ {key} : args'[k] = args[k]
               /\ \A g \in Getters : call_getter(g, key, FALSE)' = None
               /\ \A g \in Getters, name \in QueryNames, b \in BOOLEAN :
                     ( /\ get_supported_option(name, b).some
                       /\ get_supported_option(name, b).v.shortform = key )
                     => call_getter(g, name, b)' = None
      ]_vars

\* "-c 10 --count" against a Number option: 10 was stored, then replaced
C5_Witness ==
    /\ phase = "done"
    /\ argv = <<ExecPath, "-c", "10", "--count">>
    /\ Len(options) = 1
    /\ options[1].value_type = "Number"
    /\ args["c"] = CmdArgument("c", NoValue)
    /\ get_number_option("c", FALSE) = None
    /\ get_number_option("count", TRUE) = None

---------------------------------------------------------------------------
(* C6 *)

\* C6, as stated, for the options whose short form is not "__exec__": after
\* parsing, a getter asked for a name that is not registered returns
\* absent, and a getter asked for a registered option returns absent unless
\* it is the getter of the option's declared type.
C6_MismatchedGetterIsAbsent ==
    phase = "done" =>
        \A g \in Getters, name \in QueryNames, b \in BOOLEAN :
            LET o == get_supported_option(name, b)
            IN  IF ~o.some THEN call_getter(g, name, b) = None
                ELSE (o.v.shortform # ExecKey /\ o.v.value_type # VariantOf(g))
                        => call_getter(g, name, b) = None

\* what the getters return in a state: absent when the name is not
\* registered or nothing is stored under the resolved option's short form;
\* a value only when the stored variant is the getter's, and then its
\* payload; hence absent when the entry was stored by an option of another
\* type than the getter's
C6_GetterReadsStoredVariant ==
    \A g \in Getters, name \in QueryNames, b \in BOOLEAN :
        LET o == get_supported_option(name, b)
            r == call_getter(g, name, b)
        IN  /\ ~o.some => r = None
            /\ (o.some /\ o.v.shortform \notin DOMAIN args) => r = None
            /\ r.some =>
                  /\ args[o.v.shortform].value.tag = VariantOf(g)
                  /\ r.v = Payload(args[o.v.shortform].value)
                  /\ origin[o.v.shortform] \in {VariantOf(g), "executable"}
            /\ ( /\ o.some
                 /\ o.v.shortform \in DOMAIN args
                 /\ origin[o.v.shortform] \in CmdOptionValueType \ {VariantOf(g)} )
               => r = None

\* C6, amended: a typed getter returns a value only when the variant stored
\* under the resolved option's short form matches the getter, so
\* get_float_option returns absent when that entry was stored by a String
\* option (and likewise for every other mismatch), whatever type the
\* resolved option itself declares; it returns absent when the name is not
\* registered or nothing is stored under the resolved option's short form;
\* and no getter call changes the registry or the store.
C6_GettersReturnTheStoredVariant ==
    /\ []C6_GetterReadsStoredVariant
    /\ [][phase = "done" => UNCHANGED <<options, args, origin>>]_vars

\* a String option was parsed; get_string_option returned its value, and
\* get_float_option is absent by either form
C6_Witness ==
    /\ phase = "done"
    /\ argv = <<ExecPath, "-c", "0.10">>
    /\ Len(options) = 1
    /\ options[1].value_type = "String"
    /\ ret = Some("0.10")
    /\ get_string_option("c", FALSE) = Some("0.10")
    /\ get_float_option("c", FALSE) = None
    /\ get_float_option("text", TRUE) = None
    /\ get_number_option("c", FALSE) = None

---------------------------------------------------------------------------
(* C7 *)

\* the token at the head is a flag no registered option matches under its
\* classification, or a bare token
AtUnsupportedToken ==
    /\ AtToken
    /\ HeadIsFlag => ~RegisteredAs(FlagText(argv[iter]), IsLongform(argv[iter]))

\* no getter returns anything for a flag of the vector that is not
\* registered under its classification
C7_UnregisteredNeverReturned ==
    \A j \in 2..Len(argv) :
        (IsShortform(argv[j]) /\ ~RegisteredAs(FlagText(argv[j]), IsLongform(argv[j])))
        => \A g \in Getters : call_getter(g, FlagText(argv[j]), IsLongform(argv[j])) = None

\* C7: processing an unsupported flag or a bare token leaves the store as
\* it was, writes exactly one diagnostic, consumes that one token, and
\* parsing goes on; no getter returns anything for an unregistered flag.
C7_UnsupportedTokenIsSkipped ==
    [][ /\ AtUnsupportedToken
            => /\ args' = args
               /\ stderr' = Append(stderr,
                      IF HeadIsFlag
                      THEN BadOption(IsLongform(argv[iter]), FlagText(argv[iter]))
                      ELSE BadValue(argv[iter]))
               /\ Len(stderr') = Len(stderr) + 1
               /\ iter' = iter + 1
               /\ phase' = "parse"
        /\ C7_UnregisteredNeverReturned'
      ]_vars

\* "-__exec__" is not registered: one diagnostic, and "-c 10" after it is parsed
C7_Witness ==
    /\ phase = "done"
    /\ argv = <<ExecPath, "-__exec__", "-c", "10">>
    /\ Len(options) = 1
    /\ options[1].value_type = "Number"
    /\ stderr = <<"[BAD] O(S): __exec__">>
    /\ args["c"].value = NumberValue(10)
    /\ arg_count = 2
    /\ get_string_option(ExecKey, FALSE) = None

---------------------------------------------------------------------------
(* C8 *)

---------------------------------------------------------------------------
(* C9 *)

\* C9: when the token after a Number flag is not a decimal integer of the
\* signed 32-bit range, or the token after a Float flag is not a float,
\* parse_args panics at that token: the store and the diagnostics are as
\* before, and nothing happens after the panic.
C9_MalformedNumberAborts ==
    [][ /\ ( /\ AtResolvedFlag
             /\ iter < Len(argv)
             /\ \/ HeadOption.v.value_type = "Number" /\ ~ParseI32(argv[iter + 1]).ok
                \/ HeadOption.v.value_type = "Float" /\ ~ParseF32(argv[iter + 1]).ok )
           => /\ phase' = "panicked"
              /\ args' = args
              /\ stderr' = stderr
        /\ phase = "panicked" => FALSE
      ]_vars

\* 2147483648 after a Number flag: the panic leaves the store with the
\* executable alone and the token after it unread
C9_Witness ==
    /\ phase = "panicked"
    /\ argv = <<ExecPath, "-c", "2147483648", "--count">>
    /\ Len(options) = 1
    /\ options[1].value_type = "Number"
    /\ DOMAIN args = {ExecKey}
    /\ iter = Len(argv)
    /\ ~ParseI32("2147483648").ok
    /\ ParseI32("10") = Ok(10)

---------------------------------------------------------------------------
(* C10 *)

\* C10: every iteration consumes at least the token at its head.  A flag
\* that resolves to a NoValue option consumes only itself; a flag that
\* resolves to a String, Number or Float option consumes the next token
\* too whenever there is one, whatever it begins with: it is the value of
\* the entry (or the panic), no diagnostic is written for it, and it is
\* never at the head of an iteration.
C10_ValueTokenIsConsumed ==
    [][ /\ AtToken => iter' > iter
        /\ (AtResolvedFlag /\ HeadOption.v.value_type = "NoValue")
              => /\ iter' = iter + 1
                 /\ args'[HeadOption.v.shortform].value = NoValue
        /\ (AtResolvedFlag /\ HeadOption.v.value_type # "NoValue" /\ iter < Len(argv))
              => /\ iter' = iter + 2
                 /\ stderr' = stderr
                 /\ LET v == Coerce(HeadOption.v.value_type, argv[iter + 1])
                    IN  IF v.ok
                        THEN args'[HeadOption.v.shortform].value = v.v
                        ELSE phase' = "panicked"
      ]_vars

\* "-c --count" against a String option, "--count" being registered too:
\* "--count" is the value, not a flag, and no diagnostic is written
C10_Witness ==
    /\ phase = "done"
    /\ argv = <<ExecPath, "-c", "--count">>
    /\ Len(options) = 2
    /\ options[1].value_type = "String"
    /\ options[2].value_type = "Number"
    /\ args["c"] = CmdArgument("c", StringValue("--count"))
    /\ stderr = <<>>
    /\ arg_count = 2

===========================================================================
